---------------------------- MODULE Spec2Model ----------------------------
(***************************************************************************)
(* Model of the Monaco Collaborative Extensions: the EditorContentManager  *)
(* (change classification, programmatic edits with suppression), the       *)
(* RemoteCursorWidget (offset re-anchoring on local edits) and the         *)
(* RemoteSelection (ordered start/end positions, decorations).             *)
(*                                                                         *)
(* The host editor is modelled by a text buffer (a sequence of characters, *)
(* one of which is the line break), its offset/position conversion and its *)
(* content-change event, which is delivered synchronously to every         *)
(* subscribed listener after the buffer has been mutated.                  *)
(***************************************************************************)
EXTENDS Integers, Sequences, FiniteSets, TLC

VARIABLES
  text,        \* the host editor's buffer (ITextModel content)
  suppress,    \* EditorContentManager._suppress of the integrator's manager
  log,         \* callbacks the integrator's manager invoked during the last operation
  threw,       \* TRUE iff the integrator's manager raised during the last operation
  widgets,     \* RemoteCursorWidget state per cursor: _position, _offset, _disposed
  calls,       \* per cursor: handler invocations (_onInsert/_onReplace/_onDelete) in the last operation
  selection,   \* RemoteSelection state: _startPosition, _endPosition, _decorations, _disposed
  last,        \* descriptor of the last operation performed (history variable)
  inflight,    \* insert/replace/delete calls of the integrator's manager that have not exited
  outcome,     \* how the most recent call of the integrator's manager exited
  _cursorWidgets,     \* RemoteCursorManager._cursorWidgets: id -> cursor widget
  cursorObjects,      \* the RemoteCursorWidget objects created so far, by widget id
  _remoteSelections,  \* RemoteSelectionManager._remoteSelections: id -> selection
  selectionObjects,   \* the RemoteSelection objects created so far, by class id
  effects,     \* what the last manager or handle operation did to the host, in order
  listening,   \* TRUE while the integrator's manager is subscribed to the editor (_disposer)
  pending,     \* sub-changes of the event in dispatch that forEach has not processed yet
  timers,      \* the host's pending setTimeout tasks of the cursor widget of "c1"
  _hideTimer,  \* RemoteCursorWidget._hideTimer of that widget: a timer handle or null
  opacity,     \* style.opacity of that widget's tooltip node
  peerText,    \* the buffer of a second editor
  peerSuppress,  \* EditorContentManager._suppress of the second editor's manager
  stack,       \* change events and manager calls in progress across the two editors
  edits        \* per editor: insert/replace/delete calls made since the last user edit

\* state of the programmatic calls of the integrator's manager
callVars == <<inflight, outcome>>

\* state of the two marker managers
registryVars ==
  <<_cursorWidgets, cursorObjects, _remoteSelections, selectionObjects, effects>>

\* the dispatch of one event by the integrator's manager
dispatchVars == <<listening, pending>>

\* the tooltip timers of one cursor widget
tooltipVars == <<timers, _hideTimer, opacity>>

\* a second editor and its manager
peerVars == <<peerText, peerSuppress, stack, edits>>

extraVars == <<dispatchVars, tooltipVars, peerVars>>

vars ==
  <<text, suppress, log, threw, widgets, calls, selection, last, callVars, registryVars,
    extraVars>>

-----------------------------------------------------------------------------
(* Bounds of the model *)

\* longest buffer explored
MaxLen == 2

-----------------------------------------------------------------------------
(* Host editor: buffer, offsets and positions *)

NL == "\n"
Chars == {"a", NL}

\* texts a single change inserts (non-empty), and the empty text
Texts == {<<"a">>, <<NL>>, <<"a", "a">>}
NoText == <<>>

\* texts of the changes of a two-change event
BatchTexts == {NoText, <<"a">>}

Cursors == {"c1", "c2"}

Min(a, b) == IF a <= b THEN a ELSE b
Max(a, b) == IF a >= b THEN a ELSE b

\* a value for a position that was never set (null / undefined in the source)
NoPos == [lineNumber |-> 0, column |-> 0]

Pos(l, c) == [lineNumber |-> l, column |-> c]

\* number of line breaks among the first o characters of b
BreaksBefore(b, o) == Cardinality({k \in 1..o : b[k] = NL})

getLineCount(b) == BreaksBefore(b, Len(b)) + 1

\* offset at which line ln (1-based, ln <= line count) starts
LineStart(b, ln) ==
  IF ln = 1 THEN 0
  ELSE CHOOSE k \in 1..Len(b) : b[k] = NL /\ BreaksBefore(b, k) = ln - 1

\* offset just after the last character of line ln (before its line break)
LineEnd(b, ln) ==
  IF ln = getLineCount(b) THEN Len(b) ELSE LineStart(b, ln + 1) - 1

getLineMaxColumn(b, ln) == LineEnd(b, ln) - LineStart(b, ln) + 1

\* ITextModel.getPositionAt: the offset is clamped into [0, length]
getPositionAt(b, offset) ==
  LET o  == Min(Max(offset, 0), Len(b))
      ln == BreaksBefore(b, o) + 1
  IN  Pos(ln, o - LineStart(b, ln) + 1)

\* ITextModel.validatePosition: the position is clamped into the buffer
validatePosition(b, p) ==
  IF p.lineNumber < 1 THEN Pos(1, 1)
  ELSE IF p.lineNumber > getLineCount(b)
       THEN Pos(getLineCount(b), getLineMaxColumn(b, getLineCount(b)))
  ELSE IF p.column < 1 THEN Pos(p.lineNumber, 1)
  ELSE Pos(p.lineNumber, Min(p.column, getLineMaxColumn(b, p.lineNumber)))

\* ITextModel.getOffsetAt: offset of the validated position
getOffsetAt(b, p) ==
  LET v == validatePosition(b, p)
  IN  LineStart(b, v.lineNumber) + v.column - 1

\* a raw content change as the host reports it (IModelContentChange)
Change(o, l, t) == [rangeOffset |-> o, rangeLength |-> l, text |-> t]

\* the buffer after one change
ApplyChange(b, ch) ==
  SubSeq(b, 1, ch.rangeOffset) \o ch.text
    \o SubSeq(b, ch.rangeOffset + ch.rangeLength + 1, Len(b))

\* the buffer after the changes of one event; the changes are in descending
\* offset order and do not overlap, so applying them in the reported order
\* never moves a range that is still to be applied
RECURSIVE ApplyChanges(_, _)
ApplyChanges(b, chs) ==
  IF chs = <<>> THEN b ELSE ApplyChanges(ApplyChange(b, Head(chs)), Tail(chs))

-----------------------------------------------------------------------------
(* EditorContentManager *)

\* one callback invocation: the callback's name and its arguments
Invocation(cb, args) == [cb |-> cb, args |-> args]

\* the invalid change: _processChange raises instead of invoking a callback
Thrown == Invocation("throw", <<>>)

\* _processChange with the first test reduced to text.length > 0: a replace is
\* reported as an insert
_processChange_insertFirst(change) ==
  IF Len(change.text) > 0
    THEN Invocation("onInsert", <<change.rangeOffset, change.text>>)
  ELSE IF change.rangeLength > 0
    THEN Invocation("onDelete", <<change.rangeOffset, change.rangeLength>>)
  ELSE Thrown

\* EditorContentManager._processChange: the callback one raw change invokes
_processChange(change) ==
  LET rangeOffset == change.rangeOffset
      rangeLength == change.rangeLength
      txt         == change.text
  IN  IF Len(txt) > 0 /\ rangeLength = 0
        THEN Invocation("onInsert", <<rangeOffset, txt>>)
      ELSE IF Len(txt) > 0 /\ rangeLength > 0
        THEN Invocation("onReplace", <<rangeOffset, rangeLength, txt>>)
      ELSE IF Len(txt) = 0 /\ rangeLength > 0
        THEN Invocation("onDelete", <<rangeOffset, rangeLength>>)
      ELSE Thrown

\* the changes of an event processed from the last to the first
RECURSIVE forEachChange_reversed(_)
forEachChange_reversed(changes) ==
  IF changes = <<>> THEN <<>>
  ELSE LET r == _processChange(changes[Len(changes)])
       IN  IF r = Thrown THEN <<r>>
           ELSE <<r>> \o forEachChange_reversed(SubSeq(changes, 1, Len(changes) - 1))

\* e.changes.forEach(change => this._processChange(change)): the invocations in
\* order; an exception ends the loop, and is the last element
RECURSIVE forEachChange(_)
forEachChange(changes) ==
  IF changes = <<>> THEN <<>>
  ELSE LET r == _processChange(Head(changes))
       IN  IF r = Thrown THEN <<r>> ELSE <<r>> \o forEachChange(Tail(changes))

\* _onContentChanged that does not test _suppress
_onContentChanged_unguarded(sup, changes) == forEachChange(changes)

\* EditorContentManager._onContentChanged, given the value of _suppress
_onContentChanged(sup, changes) ==
  IF ~sup THEN forEachChange(changes) ELSE <<>>

IsCallback(r) == r # Thrown

-----------------------------------------------------------------------------
(* RemoteCursorWidget *)

\* null, the value the handlers compare _position with; no statement of the
\* widget assigns it
Null == [lineNumber |-> -1, column |-> -1]

\* a constructor that starts the widget at offset 0
NewWidget_atStart == [position |-> NoPos, offset |-> 0, disposed |-> FALSE]

\* state of a widget after its constructor, which assigns _offset and _disposed
\* and leaves _position unassigned (undefined, NoPos here)
NewWidget == [position |-> NoPos, offset |-> -1, disposed |-> FALSE]

\* RemoteCursorWidget._updatePosition on buffer b
_updatePosition(w, b, position) ==
  [w EXCEPT !.position = position, !.offset = getOffsetAt(b, position)]

\* RemoteCursorWidget.setPosition (the tooltip timer is not modelled here)
setPosition(w, b, position) == _updatePosition(w, b, position)

\* RemoteCursorWidget.setOffset
setOffset(w, b, offset) == setPosition(w, b, getPositionAt(b, offset))

\* _onInsert with index < offset: an insert at the cursor leaves it behind
_onInsert_strict(w, b, index, txt) ==
  IF w.position = Null THEN w
  ELSE IF index < w.offset
         THEN _updatePosition(w, b, getPositionAt(b, w.offset + Len(txt)))
         ELSE w

\* _onInsert that advances _offset and leaves _position as it was
_onInsert_offsetOnly(w, b, index, txt) ==
  IF w.position = Null THEN w
  ELSE IF index <= w.offset
         THEN [w EXCEPT !.offset = w.offset + Len(txt)]
         ELSE w

\* RemoteCursorWidget._onInsert
_onInsert(w, b, index, txt) ==
  IF w.position = Null THEN w
  ELSE LET offset == w.offset
       IN  IF index <= offset
             THEN _updatePosition(w, b, getPositionAt(b, offset + Len(txt)))
             ELSE w

\* _onReplace that forgets the inserted text
_onReplace_noText(w, b, index, length, txt) ==
  IF w.position = Null THEN w
  ELSE IF index <= w.offset
         THEN _updatePosition(w, b,
                getPositionAt(b, w.offset - Min(w.offset - index, length)))
         ELSE w

\* _onReplace that moves the cursor left by the whole removed length
_onReplace_wholeLength(w, b, index, length, txt) ==
  IF w.position = Null THEN w
  ELSE IF index <= w.offset
         THEN _updatePosition(w, b,
                getPositionAt(b, (w.offset - length) + Len(txt)))
         ELSE w

\* RemoteCursorWidget._onReplace
_onReplace(w, b, index, length, txt) ==
  IF w.position = Null THEN w
  ELSE LET offset == w.offset
       IN  IF index <= offset
             THEN _updatePosition(w, b,
                    getPositionAt(b, (offset - Min(offset - index, length)) + Len(txt)))
             ELSE w

\* _onDelete that moves the cursor left by the whole removed length
_onDelete_noMin(w, b, index, length) ==
  IF w.position = Null THEN w
  ELSE IF index <= w.offset
         THEN _updatePosition(w, b, getPositionAt(b, w.offset - length))
         ELSE w

\* _onDelete that moves only the cursors behind the removed range
_onDelete_afterOnly(w, b, index, length) ==
  IF w.position = Null THEN w
  ELSE IF index + length <= w.offset
         THEN _updatePosition(w, b, getPositionAt(b, w.offset - length))
         ELSE w

\* _onDelete that is never wired to the content manager
_onDelete_ignored(w, b, index, length) == w

\* _onDelete that puts every cursor at or after the removed range at its start
_onDelete_toIndex(w, b, index, length) ==
  IF w.position = Null THEN w
  ELSE IF index <= w.offset
         THEN _updatePosition(w, b, getPositionAt(b, index))
         ELSE w

\* RemoteCursorWidget._onDelete
_onDelete(w, b, index, length) ==
  IF w.position = Null THEN w
  ELSE LET offset == w.offset
       IN  IF index <= offset
             THEN _updatePosition(w, b,
                    getPositionAt(b, offset - Min(offset - index, length)))
             ELSE w

\* the widget's private EditorContentManager calls the handler it was given
WidgetCallback(w, b, r) ==
  CASE r.cb = "onInsert"  -> _onInsert(w, b, r.args[1], r.args[2])
    [] r.cb = "onReplace" -> _onReplace(w, b, r.args[1], r.args[2], r.args[3])
    [] r.cb = "onDelete"  -> _onDelete(w, b, r.args[1], r.args[2])
    [] OTHER              -> w

RECURSIVE WidgetCallbacks(_, _, _)
WidgetCallbacks(w, b, rs) ==
  IF rs = <<>> THEN w
  ELSE WidgetCallbacks(WidgetCallback(w, b, Head(rs)), b, Tail(rs))

\* the callbacks the private manager of widget w invokes for an event: none once
\* dispose() has released its subscription; its own _suppress is never set
WidgetInvocations(w, changes) ==
  IF w.disposed THEN <<>>
  ELSE SelectSeq(_onContentChanged(FALSE, changes), IsCallback)

\* widget w after the event: handlers run after the buffer has become b
WidgetOnEvent(w, b, changes) ==
  WidgetCallbacks(w, b, WidgetInvocations(w, changes))

\* RemoteCursorWidget.dispose (detaches the widget, releases the subscription)
dispose(w) == IF w.disposed THEN w ELSE [w EXCEPT !.disposed = TRUE]

-----------------------------------------------------------------------------
(* RemoteSelection *)

\* state of a selection after its constructor: positions unset, no decoration
NewSelection ==
  [startPosition |-> NoPos, endPosition |-> NoPos, decorations |-> <<>>,
   disposed |-> FALSE]

\* _swapIfNeeded that compares the columns only
_swapIfNeeded_columns(start, end) ==
  IF start.column <= end.column
    THEN [start |-> start, end |-> end]
    ELSE [start |-> end, end |-> start]

\* RemoteSelection._swapIfNeeded
_swapIfNeeded(start, end) ==
  IF start.lineNumber < end.lineNumber
       \/ (start.lineNumber = end.lineNumber /\ start.column <= end.column)
    THEN [start |-> start, end |-> end]
    ELSE [start |-> end, end |-> start]

\* RemoteSelection._render: one decoration over the stored range replaces the
\* selection's decorations (the host keeps the decoration from then on)
_render(s) ==
  [s EXCEPT !.decorations = <<[start |-> s.startPosition, end |-> s.endPosition]>>]

\* RemoteSelection.setPositions
setPositions(s, start, end) ==
  LET ordered == _swapIfNeeded(start, end)
  IN  _render([s EXCEPT !.startPosition = ordered.start,
                        !.endPosition = ordered.end])

\* RemoteSelection.setOffsets on buffer b
setOffsets(s, b, start, end) ==
  setPositions(s, getPositionAt(b, start), getPositionAt(b, end))

\* RemoteSelection.hide
hide(s) == [s EXCEPT !.decorations = <<>>]

-----------------------------------------------------------------------------
(* Operations *)

\* offsets an integrator passes: inside the buffer and one past its bound
Offsets == 0..(MaxLen + 1)

\* positions an integrator passes on buffer b: the positions of the buffer and
\* one below its last line, which the host clamps to the end of the buffer
Positions(b) ==
  {getPositionAt(b, o) : o \in 0..Len(b)} \cup {Pos(getLineCount(b) + 1, 1)}

\* lengths an integrator passes to replace and delete
Lengths == 1..MaxLen

\* the raw changes the host can report for one edit of buffer b: a range
\* inside the buffer, and not both an empty range and an empty text
HostChanges(b, texts) ==
  {ch \in {Change(o, l, t) : o \in 0..Len(b), l \in 0..Len(b), t \in texts} :
     /\ ch.rangeOffset + ch.rangeLength <= Len(b)
     /\ ~(ch.rangeLength = 0 /\ ch.text = NoText)}

\* the changes of one host event are in pre-edit coordinates, do not overlap
\* and are reported in descending offset order
Descending(chs) ==
  \A k \in 1..(Len(chs) - 1) :
    /\ chs[k].rangeOffset >= chs[k + 1].rangeOffset + chs[k + 1].rangeLength
    /\ chs[k].rangeOffset > chs[k + 1].rangeOffset

Offsets0(ws) == [c \in Cursors |-> ws[c].offset]

\* op: the operation; args: its arguments (setters); changes: the raw changes of
\* the event it caused; pre: every cursor's _offset before it
Descr(op, args, changes, pre) ==
  [op |-> op, args |-> args, changes |-> changes, pre |-> pre]

NoPre == [c \in Cursors |-> -1]

\* the host mutates the buffer and fires onDidChangeModelContent once: the
\* integrator's manager (with _suppress = sup) and every cursor's private
\* manager receive the event, after the buffer has changed
Deliver(changes, sup) ==
  LET b  == ApplyChanges(text, changes)
      rs == _onContentChanged(sup, changes)
  IN  /\ Len(b) <= MaxLen
      /\ text' = b
      /\ log' = SelectSeq(rs, IsCallback)
      /\ threw' = (\E k \in 1..Len(rs) : rs[k] = Thrown)
      /\ widgets' = [c \in Cursors |-> WidgetOnEvent(widgets[c], b, changes)]
      /\ calls' = [c \in Cursors |-> Len(WidgetInvocations(widgets[c], changes))]

\* a local (user) edit of the buffer reported as one change
LocalEdit ==
  \E ch \in HostChanges(text, Texts \cup {NoText}) :
    /\ Deliver(<<ch>>, suppress)
    /\ last' = Descr("local", <<>>, <<ch>>, Offsets0(widgets))
    /\ UNCHANGED <<suppress, selection>>
    /\ UNCHANGED <<callVars, registryVars, extraVars>>

\* a local edit reported as two changes (several carets, replace all, ...)
LocalBatchEdit ==
  \E c1 \in HostChanges(text, BatchTexts) :
    \E c2 \in HostChanges(text, BatchTexts) :
      /\ Descending(<<c1, c2>>)
      /\ Deliver(<<c1, c2>>, suppress)
      /\ last' = Descr("local", <<>>, <<c1, c2>>, Offsets0(widgets))
      /\ UNCHANGED <<suppress, selection>>
      /\ UNCHANGED <<callVars, registryVars, extraVars>>

\* the single change executeEdits reports for the range [start, end) and txt
EditOf(b, start, end, txt) ==
  Change(getOffsetAt(b, start), getOffsetAt(b, end) - getOffsetAt(b, start), txt)

\* insert that does not raise _suppress around executeEdits
insert_unsuppressed(index, txt) ==
  LET position == getPositionAt(text, index)
      ch       == EditOf(text, position, position, txt)
  IN  /\ Deliver(<<ch>>, suppress)
      /\ suppress' = FALSE
      /\ last' = Descr("insert", <<>>, <<ch>>, Offsets0(widgets))
      /\ UNCHANGED selection
      /\ UNCHANGED <<callVars, registryVars, extraVars>>

\* EditorContentManager.insert: _suppress is true while executeEdits runs
insert(index, txt) ==
  LET position == getPositionAt(text, index)
      ch       == EditOf(text, position, position, txt)
  IN  /\ Deliver(<<ch>>, TRUE)
      /\ suppress' = FALSE
      /\ last' = Descr("insert", <<>>, <<ch>>, Offsets0(widgets))
      /\ UNCHANGED selection
      /\ UNCHANGED <<callVars, registryVars, extraVars>>

\* EditorContentManager.replace
replace(index, length, txt) ==
  LET start == getPositionAt(text, index)
      end   == getPositionAt(text, index + length)
      ch    == EditOf(text, start, end, txt)
  IN  /\ Deliver(<<ch>>, TRUE)
      /\ suppress' = FALSE
      /\ last' = Descr("replace", <<>>, <<ch>>, Offsets0(widgets))
      /\ UNCHANGED selection
      /\ UNCHANGED <<callVars, registryVars, extraVars>>

\* EditorContentManager.delete; a call that removes nothing is not explored
delete(index, length) ==
  LET start == getPositionAt(text, index)
      end   == getPositionAt(text, index + length)
      ch    == EditOf(text, start, end, NoText)
  IN  /\ ch.rangeLength > 0
      /\ Deliver(<<ch>>, TRUE)
      /\ suppress' = FALSE
      /\ last' = Descr("delete", <<>>, <<ch>>, Offsets0(widgets))
      /\ UNCHANGED selection
      /\ UNCHANGED <<callVars, registryVars, extraVars>>

ManagerInsert == \E index \in Offsets, txt \in Texts : insert(index, txt)

ManagerReplace ==
  \E index \in Offsets, length \in Lengths, txt \in Texts : replace(index, length, txt)

ManagerDelete == \E index \in Offsets, length \in Lengths : delete(index, length)

\* RemoteCursor.setOffset / RemoteCursorManager.setCursorOffset
CursorSetOffset ==
  \E c \in Cursors, offset \in Offsets :
    /\ widgets' = [widgets EXCEPT ![c] = setOffset(widgets[c], text, offset)]
    /\ log' = <<>> /\ threw' = FALSE
    /\ calls' = [d \in Cursors |-> 0]
    /\ last' = Descr("setOffset", <<c, offset>>, <<>>, NoPre)
    /\ UNCHANGED <<text, suppress, selection>>
    /\ UNCHANGED <<callVars, registryVars, extraVars>>

\* RemoteCursor.setPosition / RemoteCursorManager.setCursorPosition
CursorSetPosition ==
  \E c \in Cursors, position \in Positions(text) :
    /\ widgets' = [widgets EXCEPT ![c] = setPosition(widgets[c], text, position)]
    /\ log' = <<>> /\ threw' = FALSE
    /\ calls' = [d \in Cursors |-> 0]
    /\ last' = Descr("setPosition", <<c, position>>, <<>>, NoPre)
    /\ UNCHANGED <<text, suppress, selection>>
    /\ UNCHANGED <<callVars, registryVars, extraVars>>

\* ids an integrator names its markers with
Ids == {"x", "y"}

\* Map.has(id) is false: no object is stored under the id
Absent == 0

\* no insert/replace/delete call has been made
InitCalls ==
  /\ inflight = <<>>
  /\ outcome = "none"

\* the managers after their constructors: empty registries, no object created
InitRegistry ==
  /\ _cursorWidgets = [id \in Ids |-> Absent]
  /\ cursorObjects = <<>>
  /\ _remoteSelections = [id \in Ids |-> Absent]
  /\ selectionObjects = <<>>
  /\ effects = <<>>

\* the two editors of a two-way synchronisation
Editors == {"A", "B"}

\* _hideTimer = null: no timer handle is stored
NoTimer == 0

\* the integrator's manager after its constructor: subscribed to the editor,
\* no event in dispatch
InitDispatch ==
  /\ listening = TRUE
  /\ pending = <<>>

\* the widget after its constructor: no timer, the tooltip's opacity not set
InitTooltip ==
  /\ timers = {}
  /\ _hideTimer = NoTimer
  /\ opacity = ""

\* the second editor holds the text of the first; its manager has made no call
InitPeer ==
  /\ peerText = text
  /\ peerSuppress = FALSE
  /\ stack = <<>>
  /\ edits = [e \in Editors |-> 0]

InitExtra == InitDispatch /\ InitTooltip /\ InitPeer

Init ==
  /\ text = <<>>
  /\ suppress = FALSE
  /\ log = <<>>
  /\ threw = FALSE
  /\ widgets = [c \in Cursors |-> NewWidget]
  /\ calls = [c \in Cursors |-> 0]
  /\ selection = NewSelection
  /\ last = Descr("new", <<>>, <<>>, NoPre)
  /\ InitCalls
  /\ InitRegistry
  /\ InitExtra

Next ==
  \/ LocalEdit
  \/ LocalBatchEdit
  \/ ManagerInsert
  \/ ManagerReplace
  \/ ManagerDelete
  \/ CursorSetOffset
  \/ CursorSetPosition

\* the editor with the integrator's manager and the cursors
Spec == Init /\ [][Next]_vars

-----------------------------------------------------------------------------
(* The editor with one RemoteSelection *)

\* RemoteSelection.setOffsets / RemoteSelectionManager.setSelectionOffsets
SelectionSetOffsets ==
  \E start \in Offsets, end \in Offsets :
    /\ selection' = setOffsets(selection, text, start, end)
    /\ log' = <<>> /\ threw' = FALSE
    /\ last' = Descr("setOffsets", <<start, end>>, <<>>, NoPre)
    /\ UNCHANGED <<text, suppress, widgets, calls>>
    /\ UNCHANGED <<callVars, registryVars, extraVars>>

\* RemoteSelection.setPositions / RemoteSelectionManager.setSelectionPositions
SelectionSetPositions ==
  \E start \in Positions(text), end \in Positions(text) :
    /\ selection' = setPositions(selection, start, end)
    /\ log' = <<>> /\ threw' = FALSE
    /\ last' = Descr("setPositions", <<start, end>>, <<>>, NoPre)
    /\ UNCHANGED <<text, suppress, widgets, calls>>
    /\ UNCHANGED <<callVars, registryVars, extraVars>>

\* RemoteSelection.show: _render reads the stored positions, which raises a
\* TypeError before anything is rendered when they were never set
SelectionShow ==
  /\ IF selection.startPosition = NoPos
       THEN threw' = TRUE /\ selection' = selection
       ELSE threw' = FALSE /\ selection' = _render(selection)
  /\ log' = <<>>
  /\ last' = Descr("show", <<>>, <<>>, NoPre)
  /\ UNCHANGED <<text, suppress, widgets, calls>>
  /\ UNCHANGED <<callVars, registryVars, extraVars>>

\* RemoteSelection.hide
SelectionHide ==
  /\ selection' = hide(selection)
  /\ log' = <<>> /\ threw' = FALSE
  /\ last' = Descr("hide", <<>>, <<>>, NoPre)
  /\ UNCHANGED <<text, suppress, widgets, calls>>
  /\ UNCHANGED <<callVars, registryVars, extraVars>>

NextSelection ==
  \/ LocalEdit
  \/ SelectionSetOffsets
  \/ SelectionSetPositions
  \/ SelectionShow
  \/ SelectionHide

SpecSelection == Init /\ [][NextSelection]_vars

-----------------------------------------------------------------------------
(* One EditorContentManager receiving one raw change *)

\* raw changes of any shape, the empty one included
RawChanges ==
  {Change(o, l, t) : o \in Offsets, l \in 0..(MaxLen + 1), t \in Texts \cup {NoText}}

\* the manager, suppressed or not, before the host delivers the change
InitClassify ==
  /\ text = <<>>
  /\ suppress \in BOOLEAN
  /\ log = <<>>
  /\ threw = FALSE
  /\ widgets = [c \in Cursors |-> NewWidget]
  /\ calls = [c \in Cursors |-> 0]
  /\ selection = NewSelection
  /\ \E ch \in RawChanges : last = Descr("pending", <<>>, <<ch>>, NoPre)
  /\ InitCalls
  /\ InitRegistry
  /\ InitExtra

\* the host delivers the pending change to the manager's _onContentChanged
Receive ==
  /\ last.op = "pending"
  /\ LET rs == _onContentChanged(suppress, last.changes)
     IN  /\ log' = SelectSeq(rs, IsCallback)
         /\ threw' = (\E k \in 1..Len(rs) : rs[k] = Thrown)
  /\ last' = [last EXCEPT !.op = "received"]
  /\ UNCHANGED <<text, suppress, widgets, calls, selection>>
  /\ UNCHANGED <<callVars, registryVars, extraVars>>

NextClassify == Receive

SpecClassify == InitClassify /\ [][NextClassify]_vars

-----------------------------------------------------------------------------
(* The integrator's manager with insert/replace/delete calls in progress *)

\* deepest nesting of insert/replace/delete calls explored
MaxDepth == 2

ProgrammaticOps == {"insert", "replace", "delete"}

\* offsets passed to the calls explored here: the start of the buffer and one
\* offset after it (past the end of an empty buffer)
CallIndexes == {0, 1}

\* a call in progress: the change its executeEdits made, and whether the host
\* has delivered the event of that change to the manager's _onContentChanged
Frame(ch, delivered) == [change |-> ch, delivered |-> delivered]

\* replace and delete that take their second argument for the end offset
CallChange_lengthAsEnd(b, op, index, length, txt) ==
  IF op = "insert"
    THEN EditOf(b, getPositionAt(b, index), getPositionAt(b, index), txt)
  ELSE IF op = "replace"
    THEN EditOf(b, getPositionAt(b, index), getPositionAt(b, Max(index, length)), txt)
  ELSE EditOf(b, getPositionAt(b, index), getPositionAt(b, Max(index, length)), NoText)

\* the change insert / replace / delete asks the host for on buffer b
CallChange(b, op, index, length, txt) ==
  IF op = "insert"
    THEN EditOf(b, getPositionAt(b, index), getPositionAt(b, index), txt)
  ELSE IF op = "replace"
    THEN EditOf(b, getPositionAt(b, index), getPositionAt(b, index + length), txt)
  ELSE EditOf(b, getPositionAt(b, index), getPositionAt(b, index + length), NoText)

\* insert / replace / delete up to and including the host's edit: _suppress is
\* set, the offsets are translated and executeEdits mutates the buffer. The call
\* stays in progress while the host dispatches the change event to its
\* listeners, one of which may call the manager again. (The cursors of this
\* editor are never positioned here: their handlers change nothing.)
Enter ==
  \E op \in ProgrammaticOps, index \in CallIndexes :
    LET ch == CallChange(text, op, index, 1, <<"a">>)
    IN  /\ Len(inflight) < MaxDepth
        /\ ch.rangeLength > 0 \/ ch.text # NoText
        /\ Len(ApplyChange(text, ch)) <= MaxLen
        /\ suppress' = TRUE
        /\ text' = ApplyChange(text, ch)
        /\ inflight' = Append(inflight, Frame(ch, FALSE))
        /\ log' = <<>> /\ threw' = FALSE
        /\ last' = Descr("enter", <<op>>, <<ch>>, NoPre)
        /\ UNCHANGED <<outcome, widgets, calls, selection, registryVars, extraVars>>

\* the host raises inside insert / replace / delete (getModel() of an editor
\* whose model is detached, executeEdits): the exception leaves the call before
\* the statement that clears _suppress, and the buffer is as it was
EnterRaises ==
  /\ Len(inflight) < MaxDepth
  /\ suppress' = TRUE
  /\ outcome' = "raised"
  /\ log' = <<>> /\ threw' = TRUE
  /\ last' = Descr("raise", <<>>, <<>>, NoPre)
  /\ UNCHANGED <<text, inflight, widgets, calls, selection, registryVars, extraVars>>

\* the host delivers the event of a call in progress to the manager's
\* _onContentChanged; the order in which a host delivers the events of nested
\* edits is the host's choice
Notify ==
  \E k \in 1..Len(inflight) :
    /\ ~inflight[k].delivered
    /\ LET rs == _onContentChanged(suppress, <<inflight[k].change>>)
       IN  /\ log' = SelectSeq(rs, IsCallback)
           /\ threw' = (\E j \in 1..Len(rs) : rs[j] = Thrown)
    /\ inflight' = [inflight EXCEPT ![k].delivered = TRUE]
    /\ last' = Descr("notify", <<k, Len(inflight)>>, <<inflight[k].change>>, NoPre)
    /\ UNCHANGED <<text, suppress, outcome, widgets, calls, selection, registryVars, extraVars>>

\* insert / replace / delete whose last statement leaves _suppress as it is
Return_keepsSuppress ==
  /\ inflight # <<>>
  /\ inflight[Len(inflight)].delivered
  /\ outcome' = "returned"
  /\ inflight' = SubSeq(inflight, 1, Len(inflight) - 1)
  /\ log' = <<>> /\ threw' = FALSE
  /\ last' = Descr("return", <<>>, <<inflight[Len(inflight)].change>>, NoPre)
  /\ UNCHANGED <<text, suppress, widgets, calls, selection, registryVars, extraVars>>

\* executeEdits of the innermost call returns (its event has been dispatched)
\* and the call ends with this._suppress = false
Return ==
  /\ inflight # <<>>
  /\ inflight[Len(inflight)].delivered
  /\ suppress' = FALSE
  /\ outcome' = "returned"
  /\ inflight' = SubSeq(inflight, 1, Len(inflight) - 1)
  /\ log' = <<>> /\ threw' = FALSE
  /\ last' = Descr("return", <<>>, <<inflight[Len(inflight)].change>>, NoPre)
  /\ UNCHANGED <<text, widgets, calls, selection, registryVars, extraVars>>

\* a local edit while no call of the manager is in progress
IdleLocalEdit == inflight = <<>> /\ LocalEdit

NextSuppress ==
  \/ Enter
  \/ EnterRaises
  \/ Notify
  \/ Return
  \/ IdleLocalEdit

SpecSuppress == Init /\ [][NextSuppress]_vars

-----------------------------------------------------------------------------
(* RemoteCursorManager: the registry of cursor widgets *)

\* most markers (cursors and selections together) created in one behaviour
MaxMarkers == 2

\* the label argument of addCursor: supplied, or left out (undefined)
NoLabel == "undefined"
Labels == {"label", NoLabel}

\* RemoteCursorManager.DEFAULT_OPTIONS.tooltips
tooltips == TRUE

\* typeof "label": the operand of addCursor's test is the string literal
\* "label", not the parameter label
typeofLabelOperand == "string"

\* a host call or a callback made by an operation, and the object it is about
Effect(e, target) == [e |-> e, target |-> target]

\* an Error raised by an operation: its message and the id the message names
Failure(msg, id) == Effect("throw", <<msg, id>>)

\* a manager in the course of an operation: its registry, its objects (by
\* widget / class id + 1) and what the operation has done so far
ManagerState(reg, objs, fx) == [reg |-> reg, objs |-> objs, fx |-> fx]

\* the operation has raised: nothing after the throw is executed
Raised(st) == st.fx # <<>> /\ st.fx[Len(st.fx)].e = "throw"

Raise(st, msg, id) == [st EXCEPT !.fx = Append(@, Failure(msg, id))]

\* a RemoteCursorWidget after its constructor: the fields of NewWidget, the id
\* its onDisposed closure removes, its display style (not set by the
\* constructor, which renders as "inherit" does), and whether it is a content
\* widget of the editor
NewCursorWidget(id) ==
  [position |-> NewWidget.position, offset |-> NewWidget.offset,
   disposed |-> NewWidget.disposed, id |-> id, display |-> "inherit",
   attached |-> TRUE]

\* RemoteCursorManager.addCursor (id and color are strings)
addCursor(st, id, label) ==
  IF tooltips /\ typeofLabelOperand # "string"
    THEN Raise(st, "'label' is required when tooltips are enabled.", "")
    ELSE [st EXCEPT !.objs = Append(@, NewCursorWidget(id)),
                    !.reg[id] = Len(st.objs) + 1,
                    !.fx = Append(@, Effect("addContentWidget", Len(st.objs) + 1))]

\* RemoteCursorManager._getCursor raises
NoSuchCursor(st, id) == Raise(st, "No such cursor: ", id)

RECURSIVE removeCursor(_, _)
RECURSIVE RemoteCursorWidget_dispose(_, _)

\* RemoteCursorWidget.dispose without the test of _disposed
RemoteCursorWidget_dispose_unguarded(st, w) ==
  removeCursor(
    [st EXCEPT !.objs[w] = [dispose(@) EXCEPT !.attached = FALSE],
               !.fx = @ \o <<Effect("removeContentWidget", w),
                             Effect("contentManager.dispose", w),
                             Effect("onDisposed", w)>>],
    st.objs[w].id)

\* RemoteCursorWidget.dispose of object w, with its onDisposed callback
\* () => this.removeCursor(id)
RemoteCursorWidget_dispose(st, w) ==
  IF st.objs[w].disposed THEN st
  ELSE removeCursor(
         [st EXCEPT !.objs[w] = [dispose(@) EXCEPT !.attached = FALSE],
                    !.fx = @ \o <<Effect("removeContentWidget", w),
                                  Effect("contentManager.dispose", w),
                                  Effect("onDisposed", w)>>],
         st.objs[w].id)

\* a removeCursor that deletes the entry before it disposes the widget
removeCursor_deleteFirst(st, id) ==
  IF st.reg[id] = Absent THEN NoSuchCursor(st, id)
  ELSE LET remoteCursorWidget == st.reg[id]
           st0 == [st EXCEPT !.reg[id] = Absent]
       IN  IF ~st.objs[remoteCursorWidget].disposed
             THEN RemoteCursorWidget_dispose(st0, remoteCursorWidget)
             ELSE st0

\* RemoteCursorManager.removeCursor
removeCursor(st, id) ==
  IF st.reg[id] = Absent THEN NoSuchCursor(st, id)
  ELSE LET remoteCursorWidget == st.reg[id]
           st1 == IF ~st.objs[remoteCursorWidget].disposed
                    THEN RemoteCursorWidget_dispose(st, remoteCursorWidget)
                    ELSE st
       IN  IF Raised(st1) THEN st1 ELSE [st1 EXCEPT !.reg[id] = Absent]

\* RemoteCursorWidget.show
RemoteCursorWidget_show(w) == [w EXCEPT !.display = "inherit"]

\* a hide that also forgets where the cursor is
RemoteCursorWidget_hide_unsets(w) ==
  [w EXCEPT !.display = "none", !.position = NoPos, !.offset = -1]

\* RemoteCursorWidget.hide
RemoteCursorWidget_hide(w) == [w EXCEPT !.display = "none"]

\* RemoteCursorManager.setCursorOffset on buffer b
setCursorOffset(st, b, id, offset) ==
  IF st.reg[id] = Absent THEN NoSuchCursor(st, id)
  ELSE [st EXCEPT !.objs[st.reg[id]] = setOffset(@, b, offset),
                  !.fx = Append(@, Effect("layoutContentWidget", st.reg[id]))]

\* RemoteCursorManager.setCursorPosition on buffer b
setCursorPosition(st, b, id, position) ==
  IF st.reg[id] = Absent THEN NoSuchCursor(st, id)
  ELSE [st EXCEPT !.objs[st.reg[id]] = setPosition(@, b, position),
                  !.fx = Append(@, Effect("layoutContentWidget", st.reg[id]))]

\* RemoteCursorManager.showCursor
showCursor(st, id) ==
  IF st.reg[id] = Absent THEN NoSuchCursor(st, id)
  ELSE [st EXCEPT !.objs[st.reg[id]] = RemoteCursorWidget_show(@)]

\* RemoteCursorManager.hideCursor
hideCursor(st, id) ==
  IF st.reg[id] = Absent THEN NoSuchCursor(st, id)
  ELSE [st EXCEPT !.objs[st.reg[id]] = RemoteCursorWidget_hide(@)]

-----------------------------------------------------------------------------
(* RemoteSelectionManager: the registry of selections *)

\* a RemoteSelection after its constructor: the fields of NewSelection, the id
\* its onDisposed closure removes, and whether its style element is in the
\* document
NewRemoteSelection(id) ==
  [startPosition |-> NewSelection.startPosition,
   endPosition |-> NewSelection.endPosition,
   decorations |-> NewSelection.decorations,
   disposed |-> NewSelection.disposed, id |-> id, styled |-> TRUE]

\* RemoteSelectionManager.addSelection
addSelection(st, id) ==
  [st EXCEPT !.objs = Append(@, NewRemoteSelection(id)),
             !.reg[id] = Len(st.objs) + 1,
             !.fx = Append(@, Effect("appendChild", Len(st.objs) + 1))]

\* RemoteSelectionManager._getSelection raises
NoSuchSelection(st, id) == Raise(st, "No such selection: ", id)

RECURSIVE removeSelection(_, _)
RECURSIVE RemoteSelection_dispose(_, _)

\* RemoteSelection.dispose of object s, with its onDisposed callback
\* () => { this.removeSelection(id); }
RemoteSelection_dispose(st, s) ==
  IF ~st.objs[s].disposed
    THEN removeSelection(
           [st EXCEPT !.objs[s] = [hide(@) EXCEPT !.styled = FALSE, !.disposed = TRUE],
                      !.fx = @ \o <<Effect("removeChild", s),
                                    Effect("deltaDecorations", s),
                                    Effect("onDisposed", s)>>],
           st.objs[s].id)
    ELSE st

\* RemoteSelectionManager.removeSelection: the entry stays in _remoteSelections
removeSelection(st, id) ==
  IF st.reg[id] = Absent THEN NoSuchSelection(st, id)
  ELSE LET remoteSelection == st.reg[id]
       IN  IF ~st.objs[remoteSelection].disposed
             THEN RemoteSelection_dispose(st, remoteSelection)
             ELSE st

\* RemoteSelection.setOffsets of object s on buffer b
RemoteSelection_setOffsets(st, b, s, start, end) ==
  [st EXCEPT !.objs[s] = setOffsets(@, b, start, end),
             !.fx = Append(@, Effect("deltaDecorations", s))]

\* RemoteSelection.setPositions of object s
RemoteSelection_setPositions(st, s, start, end) ==
  [st EXCEPT !.objs[s] = setPositions(@, start, end),
             !.fx = Append(@, Effect("deltaDecorations", s))]

\* RemoteSelection.show of object s: _render reads lineNumber of the stored
\* positions, a TypeError when they were never set
RemoteSelection_show(st, s) ==
  IF st.objs[s].startPosition = NoPos
    THEN Raise(st, "TypeError", "")
    ELSE [st EXCEPT !.objs[s] = _render(@),
                    !.fx = Append(@, Effect("deltaDecorations", s))]

\* RemoteSelection.hide of object s
RemoteSelection_hide(st, s) ==
  [st EXCEPT !.objs[s] = hide(@),
             !.fx = Append(@, Effect("deltaDecorations", s))]

\* RemoteSelectionManager.setSelectionOffsets on buffer b
setSelectionOffsets(st, b, id, start, end) ==
  IF st.reg[id] = Absent THEN NoSuchSelection(st, id)
  ELSE RemoteSelection_setOffsets(st, b, st.reg[id], start, end)

\* RemoteSelectionManager.setSelectionPositions
setSelectionPositions(st, id, start, end) ==
  IF st.reg[id] = Absent THEN NoSuchSelection(st, id)
  ELSE RemoteSelection_setPositions(st, st.reg[id], start, end)

\* RemoteSelectionManager.showSelection
showSelection(st, id) ==
  IF st.reg[id] = Absent THEN NoSuchSelection(st, id)
  ELSE RemoteSelection_show(st, st.reg[id])

\* RemoteSelectionManager.hideSelection
hideSelection(st, id) ==
  IF st.reg[id] = Absent THEN NoSuchSelection(st, id)
  ELSE RemoteSelection_hide(st, st.reg[id])

-----------------------------------------------------------------------------
(* The editor with a RemoteCursorManager and a RemoteSelectionManager *)

\* the offset passed to the markers' setters on the buffer of this
\* specification: its end
MarkerOffsets == {1}

MarkerPositions(b) == {getPositionAt(b, o) : o \in MarkerOffsets}

\* the buffer holds one character; no cursor, no selection
InitManagers ==
  /\ text = <<"a">>
  /\ suppress = FALSE
  /\ log = <<>>
  /\ threw = FALSE
  /\ widgets = [c \in Cursors |-> NewWidget]
  /\ calls = [c \in Cursors |-> 0]
  /\ selection = NewSelection
  /\ last = Descr("new", <<>>, <<>>, "absent")
  /\ InitCalls
  /\ InitRegistry
  /\ InitExtra

CursorManager == ManagerState(_cursorWidgets, cursorObjects, <<>>)

SelectionManager == ManagerState(_remoteSelections, selectionObjects, <<>>)

\* what the manager st holds under id: nothing, a live or a disposed object
EntryOf(st, id) ==
  IF st.reg[id] = Absent THEN "absent"
  ELSE IF st.objs[st.reg[id]].disposed THEN "disposed" ELSE "live"

\* object o of the manager st: live or disposed
ObjectOf(st, o) == IF st.objs[o].disposed THEN "disposed" ELSE "live"

\* the operation op(args) has left the cursor manager in st; args[1] is the id
\* and args[2] the object (Absent if none) it is about, named by the id for a
\* manager operation and by the handle otherwise; pre describes that object
\* before the operation
CursorOperation(st, op, args, pre) ==
  /\ _cursorWidgets' = st.reg
  /\ cursorObjects' = st.objs
  /\ effects' = st.fx
  /\ threw' = Raised(st)
  /\ log' = <<>>
  /\ last' = Descr(op, args, <<>>, pre)
  /\ UNCHANGED <<text, suppress, widgets, calls, selection, callVars,
                 _remoteSelections, selectionObjects>>
  /\ UNCHANGED extraVars

\* the same for the selection manager
SelectionOperation(st, op, args, pre) ==
  /\ _remoteSelections' = st.reg
  /\ selectionObjects' = st.objs
  /\ effects' = st.fx
  /\ threw' = Raised(st)
  /\ log' = <<>>
  /\ last' = Descr(op, args, <<>>, pre)
  /\ UNCHANGED <<text, suppress, widgets, calls, selection, callVars,
                 _cursorWidgets, cursorObjects>>
  /\ UNCHANGED extraVars

MarkerCount == Len(cursorObjects) + Len(selectionObjects)

AddCursor ==
  \E id \in Ids, label \in Labels :
    /\ MarkerCount < MaxMarkers
    /\ CursorOperation(addCursor(CursorManager, id, label), "addCursor",
                       <<id, Len(cursorObjects) + 1, label>>, EntryOf(CursorManager, id))

RemoveCursor ==
  \E id \in Ids :
    CursorOperation(removeCursor(CursorManager, id), "removeCursor", <<id, _cursorWidgets[id]>>,
                    EntryOf(CursorManager, id))

SetCursorOffset ==
  \E id \in Ids, offset \in MarkerOffsets :
    CursorOperation(setCursorOffset(CursorManager, text, id, offset),
                    "setCursorOffset", <<id, _cursorWidgets[id]>>, EntryOf(CursorManager, id))

SetCursorPosition ==
  \E id \in Ids, position \in MarkerPositions(text) :
    CursorOperation(setCursorPosition(CursorManager, text, id, position),
                    "setCursorPosition", <<id, _cursorWidgets[id]>>, EntryOf(CursorManager, id))

ShowCursor ==
  \E id \in Ids :
    CursorOperation(showCursor(CursorManager, id), "showCursor", <<id, _cursorWidgets[id]>>,
                    EntryOf(CursorManager, id))

HideCursor ==
  \E id \in Ids :
    CursorOperation(hideCursor(CursorManager, id), "hideCursor", <<id, _cursorWidgets[id]>>,
                    EntryOf(CursorManager, id))

\* RemoteCursor.dispose on the handle of object w
RemoteCursor_dispose ==
  \E w \in 1..Len(cursorObjects) :
    CursorOperation(RemoteCursorWidget_dispose(CursorManager, w),
                    "cursor.dispose", <<cursorObjects[w].id, w>>, ObjectOf(CursorManager, w))

\* RemoteCursor.setOffset on the handle of object w
RemoteCursor_setOffset ==
  \E w \in 1..Len(cursorObjects), offset \in MarkerOffsets :
    CursorOperation(
      [CursorManager EXCEPT !.objs[w] = setOffset(@, text, offset),
                            !.fx = <<Effect("layoutContentWidget", w)>>],
      "cursor.setOffset", <<cursorObjects[w].id, w>>, ObjectOf(CursorManager, w))

\* RemoteCursor.setPosition on the handle of object w
RemoteCursor_setPosition ==
  \E w \in 1..Len(cursorObjects), position \in MarkerPositions(text) :
    CursorOperation(
      [CursorManager EXCEPT !.objs[w] = setPosition(@, text, position),
                            !.fx = <<Effect("layoutContentWidget", w)>>],
      "cursor.setPosition", <<cursorObjects[w].id, w>>, ObjectOf(CursorManager, w))

\* RemoteCursor.show on the handle of object w
RemoteCursor_show ==
  \E w \in 1..Len(cursorObjects) :
    CursorOperation([CursorManager EXCEPT !.objs[w] = RemoteCursorWidget_show(@)],
                    "cursor.show", <<cursorObjects[w].id, w>>, ObjectOf(CursorManager, w))

\* RemoteCursor.hide on the handle of object w
RemoteCursor_hide ==
  \E w \in 1..Len(cursorObjects) :
    CursorOperation([CursorManager EXCEPT !.objs[w] = RemoteCursorWidget_hide(@)],
                    "cursor.hide", <<cursorObjects[w].id, w>>, ObjectOf(CursorManager, w))

AddSelection ==
  \E id \in Ids :
    /\ MarkerCount < MaxMarkers
    /\ SelectionOperation(addSelection(SelectionManager, id), "addSelection", <<id, Len(selectionObjects) + 1>>,
                          EntryOf(SelectionManager, id))

RemoveSelection ==
  \E id \in Ids :
    SelectionOperation(removeSelection(SelectionManager, id), "removeSelection", <<id, _remoteSelections[id]>>,
                       EntryOf(SelectionManager, id))

SetSelectionOffsets ==
  \E id \in Ids, start \in MarkerOffsets, end \in MarkerOffsets :
    SelectionOperation(setSelectionOffsets(SelectionManager, text, id, start, end),
                       "setSelectionOffsets", <<id, _remoteSelections[id]>>, EntryOf(SelectionManager, id))

SetSelectionPositions ==
  \E id \in Ids, start \in MarkerPositions(text), end \in MarkerPositions(text) :
    SelectionOperation(setSelectionPositions(SelectionManager, id, start, end),
                       "setSelectionPositions", <<id, _remoteSelections[id]>>, EntryOf(SelectionManager, id))

ShowSelection ==
  \E id \in Ids :
    SelectionOperation(showSelection(SelectionManager, id), "showSelection", <<id, _remoteSelections[id]>>,
                       EntryOf(SelectionManager, id))

HideSelection ==
  \E id \in Ids :
    SelectionOperation(hideSelection(SelectionManager, id), "hideSelection", <<id, _remoteSelections[id]>>,
                       EntryOf(SelectionManager, id))

\* dispose on the RemoteSelection s returned by addSelection
Selection_dispose ==
  \E s \in 1..Len(selectionObjects) :
    SelectionOperation(RemoteSelection_dispose(SelectionManager, s),
                       "selection.dispose", <<selectionObjects[s].id, s>>, ObjectOf(SelectionManager, s))

Selection_setOffsets ==
  \E s \in 1..Len(selectionObjects), start \in MarkerOffsets, end \in MarkerOffsets :
    SelectionOperation(RemoteSelection_setOffsets(SelectionManager, text, s, start, end),
                       "selection.setOffsets", <<selectionObjects[s].id, s>>, ObjectOf(SelectionManager, s))

Selection_setPositions ==
  \E s \in 1..Len(selectionObjects) :
    \E start \in MarkerPositions(text), end \in MarkerPositions(text) :
      SelectionOperation(RemoteSelection_setPositions(SelectionManager, s, start, end),
                         "selection.setPositions", <<selectionObjects[s].id, s>>, ObjectOf(SelectionManager, s))

Selection_show ==
  \E s \in 1..Len(selectionObjects) :
    SelectionOperation(RemoteSelection_show(SelectionManager, s),
                       "selection.show", <<selectionObjects[s].id, s>>, ObjectOf(SelectionManager, s))

Selection_hide ==
  \E s \in 1..Len(selectionObjects) :
    SelectionOperation(RemoteSelection_hide(SelectionManager, s),
                       "selection.hide", <<selectionObjects[s].id, s>>, ObjectOf(SelectionManager, s))

NextManagers ==
  \/ AddCursor
  \/ RemoveCursor
  \/ SetCursorOffset
  \/ SetCursorPosition
  \/ ShowCursor
  \/ HideCursor
  \/ RemoteCursor_dispose
  \/ RemoteCursor_setOffset
  \/ RemoteCursor_setPosition
  \/ RemoteCursor_show
  \/ RemoteCursor_hide
  \/ AddSelection
  \/ RemoveSelection
  \/ SetSelectionOffsets
  \/ SetSelectionPositions
  \/ ShowSelection
  \/ HideSelection
  \/ Selection_dispose
  \/ Selection_setOffsets
  \/ Selection_setPositions
  \/ Selection_show
  \/ Selection_hide

SpecManagers == InitManagers /\ [][NextManagers]_vars

-----------------------------------------------------------------------------
(* The integrator's manager and the cursors with dispose() *)

\* the host mutates the buffer and fires onDidChangeModelContent: the private
\* manager of every cursor that is not disposed handles the event, and the
\* integrator's manager, if it is still subscribed and not suppressed, enters
\* e.changes.forEach
HostEvent(changes) ==
  LET b == ApplyChanges(text, changes)
  IN  /\ pending = <<>>
      /\ Len(b) <= MaxLen
      /\ text' = b
      /\ widgets' = [c \in Cursors |-> WidgetOnEvent(widgets[c], b, changes)]
      /\ calls' = [c \in Cursors |-> Len(WidgetInvocations(widgets[c], changes))]
      /\ pending' = IF listening /\ ~suppress THEN changes ELSE <<>>
      /\ log' = <<>> /\ threw' = FALSE
      /\ last' = Descr("local", <<>>, changes, Offsets0(widgets))
      /\ UNCHANGED <<suppress, selection, listening, callVars, registryVars,
                     tooltipVars, peerVars>>

\* a local edit reported as one change
DisposableEdit == \E ch \in HostChanges(text, BatchTexts) : HostEvent(<<ch>>)

\* a local edit reported as two changes
DisposableBatchEdit ==
  \E c1 \in HostChanges(text, BatchTexts) :
    \E c2 \in HostChanges(text, BatchTexts) :
      Descending(<<c1, c2>>) /\ HostEvent(<<c1, c2>>)

\* forEach passes the next sub-change to _processChange, which invokes the
\* integrator's callback; the callback may call dispose() on the manager,
\* which releases the subscription and returns into the loop
ProcessChange ==
  /\ pending # <<>>
  /\ \E disposes \in BOOLEAN :
       LET r == _processChange(Head(pending))
       IN  /\ log' = IF IsCallback(r) THEN Append(log, r) ELSE log
           /\ threw' = (r = Thrown)
           /\ pending' = IF IsCallback(r) THEN Tail(pending) ELSE <<>>
           /\ listening' = (listening /\ ~(IsCallback(r) /\ disposes))
           /\ last' = Descr(IF disposes THEN "callback, dispose" ELSE "callback",
                            <<>>, <<Head(pending)>>, Offsets0(widgets))
  /\ UNCHANGED <<text, suppress, widgets, calls, selection, callVars, registryVars,
                 tooltipVars, peerVars>>

\* EditorContentManager.dispose() called while no event is in dispatch
ManagerDispose ==
  /\ pending = <<>>
  /\ listening' = FALSE
  /\ log' = <<>> /\ threw' = FALSE
  /\ last' = Descr("dispose", <<>>, <<>>, Offsets0(widgets))
  /\ UNCHANGED <<text, suppress, widgets, calls, selection, pending, callVars,
                 registryVars, tooltipVars, peerVars>>

\* RemoteCursorWidget.dispose of a cursor (RemoteCursor.dispose, removeCursor)
CursorDispose ==
  \E c \in Cursors :
    /\ widgets' = [widgets EXCEPT ![c] = dispose(@)]
    /\ log' = <<>> /\ threw' = FALSE
    /\ calls' = [d \in Cursors |-> 0]
    /\ last' = Descr("cursor.dispose", <<c, 0>>, <<>>, Offsets0(widgets))
    /\ UNCHANGED <<text, suppress, selection, callVars, registryVars, extraVars>>

NextDispose ==
  \/ DisposableEdit
  \/ DisposableBatchEdit
  \/ ProcessChange
  \/ ManagerDispose
  \/ CursorDispose
  \/ CursorSetOffset

SpecDispose == Init /\ [][NextDispose]_vars

-----------------------------------------------------------------------------
(* The tooltip of one RemoteCursorWidget and the host's timers *)

\* most timer tasks pending at once
MaxTimers == 3

\* a pending setTimeout task: its handle, and what its callback does
\* ("show": () => this._showTooltip(); "hide": () => this._setTooltipVisible(false))
Timer(handle, task) == [handle |-> handle, task |-> task]

\* the tooltip side of the widget: the host's pending tasks, _hideTimer and
\* the opacity of the tooltip node
Tooltip(ts, hideTimer, o) == [timers |-> ts, hideTimer |-> hideTimer, opacity |-> o]

\* the handle setTimeout returns: one that no pending task has
FreeHandle(ts) ==
  CHOOSE n \in 1..(Cardinality(ts) + 1) : \A t \in ts : t.handle # n

\* setTimeout(task, delay)
setTimeout(ts, task) == ts \cup {Timer(FreeHandle(ts), task)}

\* clearTimeout(handle)
clearTimeout(ts, handle) == {t \in ts : t.handle # handle}

\* RemoteCursorWidget._setTooltipVisible
_setTooltipVisible(tt, visible) ==
  LET cleared == IF tt.hideTimer # NoTimer
                   THEN [tt EXCEPT !.timers = clearTimeout(@, tt.hideTimer),
                                   !.hideTimer = NoTimer]
                   ELSE tt
  IN  [cleared EXCEPT !.opacity = IF visible THEN "1.0" ELSE "0"]

\* RemoteCursorWidget._showTooltip
_showTooltip(tt) ==
  LET shown == _setTooltipVisible(tt, TRUE)
  IN  [shown EXCEPT !.timers = setTimeout(@, "hide"),
                    !.hideTimer = FreeHandle(shown.timers)]

\* the tooltip operation has left the widget's tooltip in tt
TooltipOperation(tt, op) ==
  /\ timers' = tt.timers
  /\ _hideTimer' = tt.hideTimer
  /\ opacity' = tt.opacity
  /\ log' = <<>> /\ threw' = FALSE
  /\ last' = Descr(op, <<>>, <<>>, NoPre)
  /\ UNCHANGED <<text, suppress, calls, selection, callVars, registryVars,
                 dispatchVars, peerVars>>

\* RemoteCursorWidget.setPosition of the cursor "c1": _updatePosition, then a
\* zero-delay task that shows the tooltip; the handle setTimeout returns is
\* not kept
TooltipSetPosition ==
  \E position \in Positions(text) :
    /\ Cardinality(timers) < MaxTimers
    /\ widgets' = [widgets EXCEPT !["c1"] = setPosition(@, text, position)]
    /\ TooltipOperation(
         Tooltip(IF tooltips THEN setTimeout(timers, "show") ELSE timers,
                 _hideTimer, opacity),
         "setPosition")

\* a pending task expires and the host runs its callback
TimerFires ==
  \E t \in timers :
    LET tt == Tooltip(timers \ {t}, _hideTimer, opacity)
    IN  /\ widgets' = widgets
        /\ IF t.task = "show"
             THEN TooltipOperation(_showTooltip(tt), "timer: show")
             ELSE TooltipOperation(_setTooltipVisible(tt, FALSE), "timer: hide")

\* the mouse enters the cursor (widget created with showTooltipOnHover)
MouseOver ==
  /\ widgets' = widgets
  /\ TooltipOperation(_setTooltipVisible(Tooltip(timers, _hideTimer, opacity), TRUE),
                      "mouseover")

\* the mouse leaves the cursor
MouseOut ==
  /\ widgets' = widgets
  /\ TooltipOperation(_setTooltipVisible(Tooltip(timers, _hideTimer, opacity), FALSE),
                      "mouseout")

\* (dispose() of the widget leaves its pending tasks and _hideTimer alone)
NextTooltip ==
  \/ TooltipSetPosition
  \/ TimerFires
  \/ MouseOver
  \/ MouseOut
  \/ CursorDispose

SpecTooltip == Init /\ [][NextTooltip]_vars

-----------------------------------------------------------------------------
(* A source editor mirrored into a target editor *)

\* the source manager's callback r calls insert / replace / delete of the
\* target's manager with the arguments it was given: the target's buffer b
\* after that call
Replay(b, r) ==
  CASE r.cb = "onInsert" ->
         ApplyChange(b, CallChange(b, "insert", r.args[1], 0, r.args[2]))
    [] r.cb = "onReplace" ->
         ApplyChange(b, CallChange(b, "replace", r.args[1], r.args[2], r.args[3]))
    [] r.cb = "onDelete" ->
         ApplyChange(b, CallChange(b, "delete", r.args[1], r.args[2], NoText))
    [] OTHER -> b

\* a local edit of the source reported as one change
MirroredEdit ==
  \E ch \in HostChanges(text, Texts \cup {NoText}) : HostEvent(<<ch>>)

\* a local edit of the source reported as two changes
MirroredBatchEdit ==
  \E c1 \in HostChanges(text, Texts \cup {NoText}) :
    \E c2 \in HostChanges(text, Texts \cup {NoText}) :
      Descending(<<c1, c2>>) /\ HostEvent(<<c1, c2>>)

\* forEach of the source manager passes the next sub-change to
\* _processChange; the callback it invokes replays the change into the
\* target, whose manager is suppressed during the call and not after it
ReplayChange ==
  /\ pending # <<>>
  /\ LET r == _processChange(Head(pending))
     IN  /\ log' = IF IsCallback(r) THEN Append(log, r) ELSE log
         /\ threw' = (r = Thrown)
         /\ pending' = IF IsCallback(r) THEN Tail(pending) ELSE <<>>
         /\ peerText' = Replay(peerText, r)
         /\ last' = Descr("callback", <<>>, <<Head(pending)>>, Offsets0(widgets))
  /\ UNCHANGED <<text, suppress, widgets, calls, selection, listening, peerSuppress,
                 stack, edits, callVars, registryVars, tooltipVars>>

NextMirror ==
  \/ MirroredEdit
  \/ MirroredBatchEdit
  \/ ReplayChange

SpecMirror == Init /\ [][NextMirror]_vars

-----------------------------------------------------------------------------
(* Two editors kept in sync in both directions *)

\* editor A is the editor of text and suppress, editor B the second editor;
\* the callbacks of each editor's manager call insert / replace / delete of
\* the other editor's manager with the arguments they were given
Other(e) == IF e = "A" THEN "B" ELSE "A"

BufferOf(e) == IF e = "A" THEN text ELSE peerText

SuppressOf(e) == IF e = "A" THEN suppress ELSE peerSuppress

\* editor e holds buffer b and its manager's _suppress is sup; the other
\* editor is as it was
SetEditor(e, b, sup) ==
  /\ text' = IF e = "A" THEN b ELSE text
  /\ suppress' = IF e = "A" THEN sup ELSE suppress
  /\ peerText' = IF e = "B" THEN b ELSE peerText
  /\ peerSuppress' = IF e = "B" THEN sup ELSE peerSuppress

\* an edit of editor e in progress: its change, whether a call of e's manager
\* made it (or the user), and whether the host has delivered its event to
\* e's manager
SyncFrame(e, ch, call, delivered) ==
  [editor |-> e, change |-> ch, call |-> call, delivered |-> delivered]

\* the change the callback r asks the other editor's manager for, on that
\* editor's buffer b
ReplayedChange(b, r) ==
  CASE r.cb = "onInsert"  -> CallChange(b, "insert", r.args[1], 0, r.args[2])
    [] r.cb = "onReplace" -> CallChange(b, "replace", r.args[1], r.args[2], r.args[3])
    [] OTHER              -> CallChange(b, "delete", r.args[1], r.args[2], NoText)

SyncOperation(op, e, ch) ==
  /\ log' = <<>> /\ threw' = FALSE
  /\ last' = Descr(op, <<e>>, <<ch>>, NoPre)
  /\ UNCHANGED <<widgets, calls, selection, callVars, registryVars, dispatchVars,
                 tooltipVars>>

\* the user edits one of the editors while nothing is in progress
UserEdit ==
  \E e \in Editors :
    \E ch \in HostChanges(BufferOf(e), Texts \cup {NoText}) :
      /\ stack = <<>>
      /\ Len(ApplyChange(BufferOf(e), ch)) <= MaxLen
      /\ SetEditor(e, ApplyChange(BufferOf(e), ch), SuppressOf(e))
      /\ stack' = <<SyncFrame(e, ch, FALSE, FALSE)>>
      /\ edits' = [d \in Editors |-> 0]
      /\ SyncOperation("local", e, ch)

\* the host delivers the event of the innermost edit to the manager of its
\* editor; unless that manager is suppressed, _processChange invokes a
\* callback, which enters insert / replace / delete of the other editor's
\* manager: _suppress of that manager is set and executeEdits mutates the
\* other buffer
Dispatch ==
  /\ stack # <<>>
  /\ ~stack[Len(stack)].delivered
  /\ LET top  == stack[Len(stack)]
         o    == Other(top.editor)
         seen == [stack EXCEPT ![Len(stack)].delivered = TRUE]
     IN  \E rs \in {SelectSeq(_onContentChanged(SuppressOf(top.editor), <<top.change>>),
                              IsCallback)} :
           IF rs = <<>>
             THEN /\ stack' = seen
                  /\ UNCHANGED <<text, suppress, peerText, peerSuppress, edits>>
                  /\ SyncOperation("suppressed", top.editor, top.change)
             ELSE \E ch \in {ReplayedChange(BufferOf(o), rs[1])} :
                    /\ Cardinality({k \in 1..Len(stack) : stack[k].call}) < MaxDepth
                    /\ ch.rangeLength > 0 \/ ch.text # NoText
                    /\ Len(ApplyChange(BufferOf(o), ch)) <= MaxLen
                    /\ SetEditor(o, ApplyChange(BufferOf(o), ch), TRUE)
                    /\ stack' = Append(seen, SyncFrame(o, ch, TRUE, FALSE))
                    /\ edits' = [edits EXCEPT ![o] = @ + 1]
                    /\ SyncOperation("callback", o, ch)

\* the innermost edit is over: its event has been dispatched; a call of a
\* manager ends with this._suppress = false
Complete ==
  /\ stack # <<>>
  /\ stack[Len(stack)].delivered
  /\ LET top == stack[Len(stack)]
     IN  /\ SetEditor(top.editor, BufferOf(top.editor),
                      IF top.call THEN FALSE ELSE SuppressOf(top.editor))
         /\ stack' = SubSeq(stack, 1, Len(stack) - 1)
         /\ UNCHANGED edits
         /\ SyncOperation("return", top.editor, top.change)

NextSync ==
  \/ UserEdit
  \/ Dispatch
  \/ Complete

\* the host runs the dispatch of an event, which is synchronous, to its end
SpecSync ==
  Init /\ [][NextSync]_vars /\ WF_vars(Dispatch) /\ WF_vars(Complete)

-----------------------------------------------------------------------------
(* The re-anchoring rule of the specification, per stored offset p *)

RuleInsert(p, i, L) == IF i <= p THEN p + L ELSE p

RuleDelete(p, i, len) == IF i <= p THEN p - Min(p - i, len) ELSE p

RuleReplace(p, i, len, L) == IF i <= p THEN (p - Min(p - i, len)) + L ELSE p

IsInsert(ch) == Len(ch.text) > 0 /\ ch.rangeLength = 0
IsReplace(ch) == Len(ch.text) > 0 /\ ch.rangeLength > 0
IsDelete(ch) == Len(ch.text) = 0 /\ ch.rangeLength > 0

\* the rule for the kind of change ch
Rule(p, ch) ==
  IF IsInsert(ch) THEN RuleInsert(p, ch.rangeOffset, Len(ch.text))
  ELSE IF IsReplace(ch)
    THEN RuleReplace(p, ch.rangeOffset, ch.rangeLength, Len(ch.text))
  ELSE IF IsDelete(ch) THEN RuleDelete(p, ch.rangeOffset, ch.rangeLength)
  ELSE p

\* cursor c was positioned before the last operation and is not disposed
Tracked(c) == last.pre[c] >= 0 /\ ~widgets[c].disposed

\* the last operation was a local edit reported as the single change ch
LocalSingle(ch) == last.op = "local" /\ last.changes = <<ch>>

-----------------------------------------------------------------------------
(* Claims *)

\* C1: after a local insert of L characters at offset i, a positioned,
\* non-disposed cursor whose stored offset was p holds p + L when i <= p
\* (i = p included) and p when i > p.
C1_InsertReanchor ==
  \A c \in Cursors :
    (last.op = "local" /\ Len(last.changes) = 1 /\ IsInsert(last.changes[1])
       /\ Tracked(c))
      => LET i == last.changes[1].rangeOffset
             L == Len(last.changes[1].text)
             p == last.pre[c]
         IN  widgets[c].offset = (IF i <= p THEN p + L ELSE p)

\* C1 witness: a local insert at the offset of one cursor (i = p), which moved
\* by L, and after the offset of the other (i > p), which stayed.
C1_Witness ==
  /\ last.op = "local" /\ Len(last.changes) = 1 /\ IsInsert(last.changes[1])
  /\ \E c, d \in Cursors :
       /\ Tracked(c) /\ Tracked(d)
       /\ last.pre[c] = last.changes[1].rangeOffset
       /\ widgets[c].offset = last.pre[c] + Len(last.changes[1].text)
       /\ last.pre[d] < last.changes[1].rangeOffset
       /\ widgets[d].offset = last.pre[d]

\* C2: after a local delete of len characters at offset i, a positioned,
\* non-disposed cursor whose stored offset was p holds p - min(p - i, len)
\* when i <= p and p when i > p.
C2_DeleteReanchor ==
  \A c \in Cursors :
    (last.op = "local" /\ Len(last.changes) = 1 /\ IsDelete(last.changes[1])
       /\ Tracked(c))
      => LET i   == last.changes[1].rangeOffset
             len == last.changes[1].rangeLength
             p   == last.pre[c]
         IN  widgets[c].offset = (IF i <= p THEN p - Min(p - i, len) ELSE p)

\* C2 witness: a local delete with one cursor strictly inside the removed span,
\* which ended at i, and another at its end, which moved left by len.
C2_Witness ==
  /\ last.op = "local" /\ Len(last.changes) = 1 /\ IsDelete(last.changes[1])
  /\ \E c, d \in Cursors :
       LET i   == last.changes[1].rangeOffset
           len == last.changes[1].rangeLength
       IN  /\ Tracked(c) /\ Tracked(d)
           /\ i < last.pre[c] /\ last.pre[c] < i + len
           /\ widgets[c].offset = i
           /\ last.pre[d] >= i + len
           /\ widgets[d].offset = last.pre[d] - len

\* C3: after a local replace at offset i removing len characters and inserting
\* L, a positioned, non-disposed cursor whose stored offset was p holds
\* (p - min(p - i, len)) + L when i <= p and p when i > p.
C3_ReplaceReanchor ==
  \A c \in Cursors :
    (last.op = "local" /\ Len(last.changes) = 1 /\ IsReplace(last.changes[1])
       /\ Tracked(c))
      => LET i   == last.changes[1].rangeOffset
             len == last.changes[1].rangeLength
             L   == Len(last.changes[1].text)
             p   == last.pre[c]
         IN  widgets[c].offset =
               (IF i <= p THEN (p - Min(p - i, len)) + L ELSE p)

\* C3 witness: a local replace with one cursor strictly inside the replaced
\* span, which ended at i + L, and another before it, which stayed.
C3_Witness ==
  /\ last.op = "local" /\ Len(last.changes) = 1 /\ IsReplace(last.changes[1])
  /\ \E c, d \in Cursors :
       LET i   == last.changes[1].rangeOffset
           len == last.changes[1].rangeLength
           L   == Len(last.changes[1].text)
       IN  /\ Tracked(c) /\ Tracked(d)
           /\ i <= last.pre[c] /\ last.pre[c] < i + len
           /\ widgets[c].offset = i + L
           /\ last.pre[d] < i
           /\ widgets[d].offset = last.pre[d]

\* C4: the stored offset of a positioned (non-disposed) cursor is between 0
\* and the current length of the buffer, after any sequence of edits.
C4_OffsetBound ==
  \A c \in Cursors :
    (widgets[c].position # NoPos /\ ~widgets[c].disposed)
      => (0 <= widgets[c].offset /\ widgets[c].offset <= Len(text))

\* C4 witness: an event of two changes shrank the buffer below the offset a
\* cursor held, and the cursor is inside the buffer.
C4_Witness ==
  /\ last.op = "local" /\ Len(last.changes) = 2
  /\ \E c \in Cursors :
       /\ Tracked(c)
       /\ last.pre[c] > Len(text)
       /\ widgets[c].offset <= Len(text)

\* C5: a programmatic insert/replace/delete through the integrator's manager
\* invokes none of that manager's callbacks, while every (non-disposed) cursor's
\* private manager receives the change: one handler call per sub-change, and a
\* positioned cursor's offset is the rule applied once to the offset it held.
C5_ProgrammaticEdit ==
  (last.op \in ProgrammaticOps)
    => /\ log = <<>>
       /\ ~threw
       /\ \A c \in Cursors :
            ~widgets[c].disposed
              => /\ calls[c] = Len(last.changes)
                 /\ Tracked(c)
                      => widgets[c].offset = Rule(last.pre[c], last.changes[1])

\* C5 witness: a programmatic edit at or before the offsets of two positioned
\* cursors moved both, and the manager reported nothing.
C5_Witness ==
  /\ last.op \in ProgrammaticOps
  /\ log = <<>>
  /\ \A c \in Cursors :
       /\ Tracked(c)
       /\ calls[c] = 1
       /\ last.changes[1].rangeOffset <= last.pre[c]
       /\ widgets[c].offset # last.pre[c]

\* the callback the specification assigns to a valid raw change
Classified(ch) ==
  IF IsInsert(ch) THEN Invocation("onInsert", <<ch.rangeOffset, ch.text>>)
  ELSE IF IsReplace(ch)
    THEN Invocation("onReplace", <<ch.rangeOffset, ch.rangeLength, ch.text>>)
  ELSE Invocation("onDelete", <<ch.rangeOffset, ch.rangeLength>>)

\* C6: a raw change delivered to a manager that is not suppressed has exactly
\* one outcome: onInsert(rangeOffset, text) when |text| > 0 and rangeLength = 0,
\* onReplace(rangeOffset, rangeLength, text) when |text| > 0 and rangeLength > 0,
\* onDelete(rangeOffset, rangeLength) when |text| = 0 and rangeLength > 0, and
\* an error with no callback when both are 0.
C6_Classification ==
  (last.op = "received" /\ ~suppress)
    => LET ch == last.changes[1]
       IN  IF IsInsert(ch) \/ IsReplace(ch) \/ IsDelete(ch)
             THEN log = <<Classified(ch)>> /\ ~threw
             ELSE log = <<>> /\ threw

\* C6 witness: the empty change was delivered and the manager raised.
C6_Witness ==
  /\ last.op = "received" /\ ~suppress
  /\ last.changes[1].rangeLength = 0 /\ last.changes[1].text = NoText
  /\ threw /\ log = <<>>

\* C7: for a local event carrying the valid changes c1..cn, the integrator's
\* manager invokes exactly n callbacks, the k-th being the classification of ck
\* with ck's own rangeOffset and rangeLength, in the order k = 1..n.
C7_BatchOrder ==
  (last.op = "local")
    => /\ ~threw
       /\ Len(log) = Len(last.changes)
       /\ \A k \in 1..Len(last.changes) : log[k] = Classified(last.changes[k])

\* C7 witness: an event of two changes of different kinds was reported as two
\* callbacks.
C7_Witness ==
  /\ last.op = "local" /\ Len(last.changes) = 2
  /\ Len(log) = 2
  /\ log[1].cb # log[2].cb

\* C8: after a local event of several changes, a positioned cursor's offset is
\* the rule applied to each change in the reported order, every intermediate
\* offset carried to the next change unchanged.
C8_BatchedReanchor ==
  \A c \in Cursors :
    (last.op = "local" /\ Len(last.changes) = 2 /\ Tracked(c))
      => widgets[c].offset =
           Rule(Rule(last.pre[c], last.changes[1]), last.changes[2])

\* C9: a local edit re-anchors the stored start and end of a positioned
\* selection with the rule for cursors: the offsets of the stored positions in
\* the new buffer are the rule applied to their offsets in the old one.
C9_SelectionReanchor ==
  [][(last'.op = "local" /\ Len(last'.changes) = 1
        /\ selection.startPosition # NoPos /\ ~selection.disposed)
       => /\ getOffsetAt(text', selection'.startPosition)
               = Rule(getOffsetAt(text, selection.startPosition), last'.changes[1])
          /\ getOffsetAt(text', selection'.endPosition)
               = Rule(getOffsetAt(text, selection.endPosition), last'.changes[1])]_vars

\* (lineNumber, column) order of two positions
PosLE(p, q) ==
  p.lineNumber < q.lineNumber \/ (p.lineNumber = q.lineNumber /\ p.column <= q.column)

\* C10: the stored start of a positioned selection is never after its stored
\* end in (lineNumber, column) order; setPositions stores its inputs as given
\* when they are in order and swapped when reversed, and setOffsets does so
\* with the positions of its offsets.
C10_SelectionOrdered ==
  /\ selection.startPosition # NoPos
       => PosLE(selection.startPosition, selection.endPosition)
  /\ last.op = "setPositions"
       => LET a == last.args[1]
              b == last.args[2]
          IN  IF PosLE(a, b)
                THEN selection.startPosition = a /\ selection.endPosition = b
                ELSE selection.startPosition = b /\ selection.endPosition = a
  /\ last.op = "setOffsets"
       => LET lo == Min(last.args[1], last.args[2])
              hi == Max(last.args[1], last.args[2])
          IN  /\ selection.startPosition = getPositionAt(text, lo)
              /\ selection.endPosition = getPositionAt(text, hi)

\* C10 witness: setOffsets was given a start offset after the end offset, on
\* different lines, and the stored start is before the stored end.
C10_Witness ==
  /\ last.op = "setOffsets"
  /\ last.args[1] > last.args[2]
  /\ selection.startPosition = getPositionAt(text, last.args[2])
  /\ selection.endPosition = getPositionAt(text, last.args[1])
  /\ selection.startPosition.lineNumber < selection.endPosition.lineNumber

\* C11: when the host raises inside insert/replace/delete of a manager, the
\* manager's _suppress is off once the call has exited, and the next local
\* change is reported through onInsert/onReplace/onDelete.
C11_SuppressionAfterThrow ==
  /\ (last.op = "raise" /\ inflight = <<>>) => ~suppress
  /\ (last.op = "local" /\ outcome = "raised")
       => log = <<Classified(last.changes[1])>>

\* C12: while no insert/replace/delete call of a manager is executing, before
\* its first call and after a call that returned normally, every change
\* delivered to it is classified and reported through its callbacks.
C12_SuppressionWindow ==
  (last.op = "local" /\ outcome \in {"none", "returned"})
    => log = <<Classified(last.changes[1])>> /\ ~threw

\* C12 witness: a local edit after a call that returned normally was reported.
C12_Witness ==
  /\ last.op = "local"
  /\ outcome = "returned"
  /\ ~suppress
  /\ log = <<Classified(last.changes[1])>>

\* C13: the suppression of a manager never ends while one of its own calls is
\* in progress, so the event of every edit of a call in progress is suppressed
\* when it reaches the manager, also the event of an outer call that arrives
\* after a re-entrant inner call has returned.
C13_ReentrantSuppression ==
  /\ inflight # <<>> => suppress
  /\ last.op = "notify" => log = <<>>

\* the manager operations that look a marker up by its id
CursorOpsById ==
  {"removeCursor", "setCursorPosition", "setCursorOffset", "showCursor", "hideCursor"}

SelectionOpsById ==
  {"removeSelection", "setSelectionOffsets", "setSelectionPositions",
   "showSelection", "hideSelection"}

\* the operations of a handle other than dispose and isDisposed
HandleOps ==
  {"cursor.show", "cursor.hide", "cursor.setOffset", "cursor.setPosition",
   "selection.show", "selection.hide", "selection.setOffsets",
   "selection.setPositions"}

\* no registry and no marker changes in the step
MarkersUnchanged ==
  UNCHANGED <<_cursorWidgets, cursorObjects, _remoteSelections, selectionObjects>>

\* C14: a manager operation on an id the registry does not hold (never added,
\* or added and then removed) raises an error that names the id and changes
\* neither the registry nor any marker. (The remove of an id whose marker was
\* removed before is the case of C17 and is left out here.)
C14_UnknownId ==
  [][/\ (last'.op \in CursorOpsById /\ last'.pre = "absent")
          => /\ effects' = <<Failure("No such cursor: ", last'.args[1])>>
             /\ MarkersUnchanged
     /\ (/\ last'.op \in SelectionOpsById
         /\ \/ last'.pre = "absent"
            \/ last'.pre = "disposed" /\ last'.op # "removeSelection")
          => /\ effects' = <<Failure("No such selection: ", last'.args[1])>>
             /\ MarkersUnchanged]_vars

\* C15: addCursor without a label, on a manager with tooltips enabled, raises
\* an error, creates no widget and adds no registry entry.
C15_LabelRequired ==
  [][(last'.op = "addCursor" /\ tooltips /\ last'.args[3] = NoLabel)
       => /\ threw'
          /\ cursorObjects' = cursorObjects
          /\ _cursorWidgets' = _cursorWidgets]_vars

\* C16: after removeCursor(id) / removeSelection(id) of a live marker, or
\* dispose() on the handle of a live marker, the marker is disposed and its id
\* is not a key of the registry.
C16_RemovalDeletesEntry ==
  [][/\ (last'.op = "removeCursor" /\ last'.pre = "live")
          => /\ cursorObjects'[last'.args[2]].disposed
             /\ _cursorWidgets'[last'.args[1]] = Absent
     /\ (last'.op = "cursor.dispose" /\ last'.pre = "live")
          => /\ cursorObjects'[last'.args[2]].disposed
             /\ _cursorWidgets'[last'.args[1]] = Absent
     /\ (last'.op = "removeSelection" /\ last'.pre = "live")
          => /\ selectionObjects'[last'.args[2]].disposed
             /\ _remoteSelections'[last'.args[1]] = Absent
     /\ (last'.op = "selection.dispose" /\ last'.pre = "live")
          => /\ selectionObjects'[last'.args[2]].disposed
             /\ _remoteSelections'[last'.args[1]] = Absent]_vars

\* C17: a second removeCursor(id) / removeSelection(id) right after the first,
\* with no add in between, returns without an error and changes neither the
\* registry nor any marker.
C17_SecondRemove ==
  [][(/\ last.op \in {"removeCursor", "removeSelection"}
      /\ ~threw
      /\ last'.op = last.op
      /\ last'.args[1] = last.args[1])
       => ~threw' /\ MarkersUnchanged]_vars

\* C18: dispose() on the handle of an already disposed cursor or selection
\* raises no error, leaves the marker disposed, detaches nothing and does not
\* invoke onDisposed again.
C18_DisposeIdempotent ==
  /\ (last.op = "cursor.dispose" /\ last.pre = "disposed")
       => /\ ~threw
          /\ effects = <<>>
          /\ cursorObjects[last.args[2]].disposed
  /\ (last.op = "selection.dispose" /\ last.pre = "disposed")
       => /\ ~threw
          /\ effects = <<>>
          /\ selectionObjects[last.args[2]].disposed

\* C18 witness: dispose() was called on the handle of a cursor that had been
\* disposed and removed from the registry; nothing happened.
C18_Witness ==
  /\ last.op = "cursor.dispose"
  /\ last.pre = "disposed"
  /\ cursorObjects[last.args[2]].disposed
  /\ _cursorWidgets[last.args[1]] = Absent
  /\ effects = <<>>
  /\ ~threw

\* C19: show, hide, setOffset, setPosition, setOffsets or setPositions on the
\* handle of a disposed marker raises an error and changes neither the marker
\* nor what the editor renders.
C19_DisposedHandle ==
  [][(last'.op \in HandleOps /\ last'.pre = "disposed")
       => threw' /\ MarkersUnchanged]_vars

\* C20: every marker that is not disposed is the value its manager's registry
\* holds under the marker's id.
C20_RegistryOwnsLive ==
  /\ \A w \in 1..Len(cursorObjects) :
       ~cursorObjects[w].disposed => _cursorWidgets[cursorObjects[w].id] = w
  /\ \A s \in 1..Len(selectionObjects) :
       ~selectionObjects[s].disposed => _remoteSelections[selectionObjects[s].id] = s

\* show and hide, by id or on the handle
CursorVisibilityOps == {"showCursor", "hideCursor", "cursor.show", "cursor.hide"}

SelectionVisibilityOps ==
  {"showSelection", "hideSelection", "selection.show", "selection.hide"}

\* C21: show and hide (on a handle, or showCursor / hideCursor /
\* showSelection / hideSelection by id) change nothing but the visibility of
\* the marker they are called on: the registries, the stored offset and
\* position(s) and the disposed flag of that marker, and every other marker,
\* are what they were.
C21_VisibilityFrame ==
  [][/\ last'.op \in CursorVisibilityOps
          => /\ UNCHANGED <<_cursorWidgets, _remoteSelections, selectionObjects>>
             /\ Len(cursorObjects') = Len(cursorObjects)
             /\ \A w \in 1..Len(cursorObjects) :
                  IF w = last'.args[2]
                    THEN [cursorObjects'[w] EXCEPT !.display = cursorObjects[w].display]
                           = cursorObjects[w]
                    ELSE cursorObjects'[w] = cursorObjects[w]
     /\ last'.op \in SelectionVisibilityOps
          => /\ UNCHANGED <<_remoteSelections, _cursorWidgets, cursorObjects>>
             /\ Len(selectionObjects') = Len(selectionObjects)
             /\ \A s \in 1..Len(selectionObjects) :
                  IF s = last'.args[2]
                    THEN [selectionObjects'[s] EXCEPT
                            !.decorations = selectionObjects[s].decorations]
                           = selectionObjects[s]
                    ELSE selectionObjects'[s] = selectionObjects[s]]_vars

\* C21 witness: hideCursor has hidden a positioned, registered cursor while
\* the editor holds another marker.
C21_Witness ==
  /\ last.op = "hideCursor"
  /\ last.args[2] # Absent
  /\ cursorObjects[last.args[2]].display = "none"
  /\ cursorObjects[last.args[2]].offset = 1
  /\ ~cursorObjects[last.args[2]].disposed
  /\ _cursorWidgets[last.args[1]] = last.args[2]
  /\ MarkerCount = 2

\* the setters of a cursor and of a selection, by id or on the handle
CursorSetters ==
  {"setCursorOffset", "setCursorPosition", "cursor.setOffset", "cursor.setPosition"}

SelectionSetters ==
  {"setSelectionOffsets", "setSelectionPositions", "selection.setOffsets",
   "selection.setPositions"}

\* C22: visibility does not depend on positioning: a cursor that is hidden
\* stays hidden through a setOffset / setPosition, and a selection that
\* hide() has just hidden stays without a decoration through a setOffsets /
\* setPositions; only show() renders a hidden marker again.
C22_HiddenStaysHidden ==
  [][/\ (/\ last'.op \in CursorSetters
         /\ last'.args[2] # Absent
         /\ cursorObjects[last'.args[2]].display = "none")
          => cursorObjects'[last'.args[2]].display = "none"
     /\ (/\ last.op \in {"hideSelection", "selection.hide"}
         /\ ~threw
         /\ last'.op \in SelectionSetters
         /\ last'.args[2] = last.args[2])
          => selectionObjects'[last'.args[2]].decorations = <<>>]_vars

\* C23: once dispose() of an EditorContentManager has been called, also from
\* inside one of its own callbacks during the dispatch of an event with
\* several sub-changes, the manager invokes no callback any more; and a local
\* edit does not change the stored offset of a cursor whose widget is disposed.
C23_NoCallbackAfterDispose ==
  [][/\ ~listening => Len(log') <= Len(log)
     /\ \A c \in Cursors :
          (widgets[c].disposed /\ last'.op = "local")
            => widgets'[c].offset = widgets[c].offset]_vars

\* C24: a cursor with tooltips enabled has at most one deferred
\* tooltip-visibility callback pending at any time (the zero-delay show task
\* of setPosition or the hide timer of _showTooltip): scheduling one cancels
\* the one that was pending, whatever the order of setPosition calls, hover
\* events and timer expirations.
C24_OneDeferredCallback == Cardinality(timers) <= 1

\* the operations that edit the buffer
EditOps == {"local", "insert", "replace", "delete"}

\* C25: a cursor that was never positioned holds the offset -1 and no
\* position, and every edit of the buffer (local or programmatic, at any
\* offset >= 0) leaves both as they are: no handler translates an offset or
\* lays the widget out again (_updatePosition, the only place that does,
\* stores a position).
C25_UnpositionedNoOp ==
  [][\A c \in Cursors :
       (last'.op \in EditOps /\ widgets[c].position = NoPos)
         => /\ widgets[c].offset = -1
            /\ widgets'[c] = widgets[c]]_vars

\* C25 witness: a local insert at offset 0 was handled by a cursor that was
\* never positioned, which still has no position and the offset -1, while the
\* other cursor moved.
C25_Witness ==
  /\ last.op = "local"
  /\ Len(last.changes) = 1
  /\ IsInsert(last.changes[1])
  /\ last.changes[1].rangeOffset = 0
  /\ calls["c1"] = 1
  /\ widgets["c1"].position = NoPos
  /\ widgets["c1"].offset = -1
  /\ last.pre["c2"] = 0
  /\ widgets["c2"].offset = 1

Positioned(c) == widgets[c].position # NoPos /\ ~widgets[c].disposed

C28_OffsetMatchesPosition ==
  \A c \in Cursors :
    Positioned(c) => widgets[c].offset = getOffsetAt(text, widgets[c].position)

\* C28 witness: a local insert of a line break in front of a cursor at offset
\* 1 has moved it to offset 2, which is line 2, column 2 of the new buffer.
C28_Witness ==
  /\ last.op = "local"
  /\ Len(last.changes) = 1
  /\ IsInsert(last.changes[1])
  /\ last.pre["c1"] = 1
  /\ widgets["c1"].offset = 2
  /\ widgets["c1"].position = Pos(2, 2)
  /\ getOffsetAt(text, Pos(2, 2)) = 2

\* what C29 says of every state: while the dispatch of a user's edit is in
\* progress, no call has edited the editor the user edited, at most one call
\* has edited the other one, and at most the user's edit and that call are in
\* progress; when the dispatch is over, exactly one call has edited the other
\* editor and the two buffers are equal
NoEcho ==
  /\ stack # <<>>
       => /\ edits[stack[1].editor] = 0
          /\ edits[Other(stack[1].editor)] <= 1
          /\ Len(stack) <= 2
  /\ (stack = <<>> /\ last.op = "return")
       => /\ edits[last.args[1]] = 0
          /\ edits[Other(last.args[1])] = 1
          /\ peerText = text

\* C29: two-way synchronisation does not echo: with the callbacks of each
\* editor's manager calling insert / replace / delete of the other's, one
\* local single-change edit in an editor causes exactly one programmatic edit
\* in the other editor and none in the editor it was made in, and the
\* dispatch terminates.
C29_NoEcho == []NoEcho /\ (stack # <<>> ~> stack = <<>>)

\* C29 witness: the user typed in editor A, the call made by A's callback has
\* edited B and returned, the dispatch is over and both managers are not
\* suppressed.
C29_Witness ==
  /\ stack = <<>>
  /\ last.op = "return"
  /\ last.args[1] = "A"
  /\ edits["B"] = 1
  /\ edits["A"] = 0
  /\ text = <<"a", "a">>
  /\ peerText = text
  /\ ~suppress /\ ~peerSuppress


\* C30: adding a marker under an id already in the registry does not entangle
\* the two markers: when addCursor / addSelection was called twice with the
\* same id and both markers are live, dispose() on the handle of the first
\* disposes the first and leaves the second not disposed, rendered as it was
\* and registered under the id.
C30_NoEntanglement ==
  [][/\ \A w \in 1..Len(cursorObjects), w2 \in 1..Len(cursorObjects) :
          ( /\ last'.op = "cursor.dispose" /\ last'.args[2] = w
            /\ w < w2
            /\ cursorObjects[w2].id = cursorObjects[w].id
            /\ ~cursorObjects[w].disposed /\ ~cursorObjects[w2].disposed
            /\ _cursorWidgets[cursorObjects[w].id] = w2 )
          => /\ cursorObjects'[w].disposed
             /\ cursorObjects'[w2] = cursorObjects[w2]
             /\ _cursorWidgets'[cursorObjects[w].id] = w2
     /\ \A s \in 1..Len(selectionObjects), s2 \in 1..Len(selectionObjects) :
          ( /\ last'.op = "selection.dispose" /\ last'.args[2] = s
            /\ s < s2
            /\ selectionObjects[s2].id = selectionObjects[s].id
            /\ ~selectionObjects[s].disposed /\ ~selectionObjects[s2].disposed
            /\ _remoteSelections[selectionObjects[s].id] = s2 )
          => /\ selectionObjects'[s].disposed
             /\ selectionObjects'[s2] = selectionObjects[s2]
             /\ _remoteSelections'[selectionObjects[s].id] = s2]_vars


\* how many times the last operation made the host call or callback e on
\* object target
Invocations(e, target) ==
  Cardinality({k \in 1..Len(effects) : effects[k] = Effect(e, target)})

\* C31: dispose -> onDisposed -> remove -> dispose terminates: after
\* removeCursor / removeSelection or dispose() on the handle of a live marker
\* whose id was added once, the marker is disposed, it was detached exactly
\* once, its onDisposed callback was invoked exactly once, nothing else was
\* done and no error was raised.
C31_RecursionTerminates ==
  /\ ( /\ last.op \in {"removeCursor", "cursor.dispose"}
       /\ last.pre = "live"
       /\ Cardinality({w \in 1..Len(cursorObjects) :
                         cursorObjects[w].id = last.args[1]}) = 1 )
       => /\ ~threw
          /\ cursorObjects[last.args[2]].disposed
          /\ Invocations("removeContentWidget", last.args[2]) = 1
          /\ Invocations("contentManager.dispose", last.args[2]) = 1
          /\ Invocations("onDisposed", last.args[2]) = 1
          /\ Len(effects) = 3
  /\ ( /\ last.op \in {"removeSelection", "selection.dispose"}
       /\ last.pre = "live"
       /\ Cardinality({s \in 1..Len(selectionObjects) :
                         selectionObjects[s].id = last.args[1]}) = 1 )
       => /\ ~threw
          /\ selectionObjects[last.args[2]].disposed
          /\ Invocations("removeChild", last.args[2]) = 1
          /\ Invocations("deltaDecorations", last.args[2]) = 1
          /\ Invocations("onDisposed", last.args[2]) = 1
          /\ Len(effects) = 3

\* C31 witness: removeCursor("x") on the only cursor added under "x", which
\* was live: the widget was detached and its onDisposed callback, which calls
\* removeCursor("x") again, returned.
C31_Witness ==
  /\ last.op = "removeCursor"
  /\ last.pre = "live"
  /\ last.args[1] = "x"
  /\ Len(cursorObjects) = 1
  /\ cursorObjects[1].disposed
  /\ Invocations("onDisposed", 1) = 1
  /\ _cursorWidgets["x"] = Absent
  /\ ~threw


\* C32: a disposed marker is never rendered again: in every state the editor
\* holds no decoration of a disposed selection and no content widget of a
\* disposed cursor widget, and no tooltip task of a disposed cursor widget is
\* pending.
C32_DisposedNeverRendered ==
  /\ \A s \in 1..Len(selectionObjects) :
       selectionObjects[s].disposed => selectionObjects[s].decorations = <<>>
  /\ \A w \in 1..Len(cursorObjects) :
       cursorObjects[w].disposed => ~cursorObjects[w].attached
  /\ widgets["c1"].disposed => timers = {}


\* C33: a replace re-anchors as a delete followed by an insert at the same
\* offset: when a local edit replaces len characters at offset i by a text of
\* L characters, every positioned cursor ends as _onDelete(i, len) on the
\* buffer without the removed characters followed by _onInsert(i, text) on the
\* final buffer would leave it; and on all offsets p, i and lengths len, L of
\* the bounds, the replace rule gives what the delete rule followed by the
\* insert rule gives.
C33_ReplaceIsDeleteThenInsert ==
  /\ [][\A c \in Cursors :
          ( /\ last'.op = "local" /\ Len(last'.changes) = 1
            /\ IsReplace(last'.changes[1])
            /\ Positioned(c) )
          => LET i        == last'.changes[1].rangeOffset
                 len      == last'.changes[1].rangeLength
                 txt      == last'.changes[1].text
                 gone     == ApplyChange(text, Change(i, len, NoText))
                 deleted  == _onDelete(widgets[c], gone, i, len)
                 inserted == _onInsert(deleted, text', i, txt)
             IN  /\ widgets'[c] = inserted
                 /\ widgets'[c].offset =
                      RuleInsert(RuleDelete(widgets[c].offset, i, len), i, Len(txt))]_vars
  /\ \A p \in Offsets, i \in Offsets, len \in Lengths, L \in Lengths :
       RuleReplace(p, i, len, L) = RuleInsert(RuleDelete(p, i, len), i, L)

\* C33 witness: a local replace of two characters at offset 0 by one, with a
\* cursor inside the replaced span (p = 1, p - i < len): the delete rule brings
\* it to 0 and the insert rule to 1, where the replace has left it.
C33_Witness ==
  /\ last.op = "local" /\ Len(last.changes) = 1
  /\ IsReplace(last.changes[1])
  /\ last.changes[1].rangeOffset = 0
  /\ last.changes[1].rangeLength = 2
  /\ Len(last.changes[1].text) = 1
  /\ \E c \in Cursors :
       /\ Tracked(c)
       /\ last.pre[c] = 1
       /\ RuleDelete(1, 0, 2) = 0
       /\ widgets[c].offset = 1


\* C34: undoing an insert restores the cursor: when a local insert of L
\* characters at offset i is followed by a local delete of L characters at
\* offset i, every cursor that was positioned before the insert and is not
\* disposed holds the offset it had before the insert, whether i was before,
\* at or after it.
C34_UndoInsertRestores ==
  [][\A c \in Cursors :
       ( /\ last.op = "local" /\ Len(last.changes) = 1
         /\ IsInsert(last.changes[1])
         /\ Tracked(c)
         /\ last'.op = "local" /\ Len(last'.changes) = 1
         /\ IsDelete(last'.changes[1])
         /\ last'.changes[1].rangeOffset = last.changes[1].rangeOffset
         /\ last'.changes[1].rangeLength = Len(last.changes[1].text) )
       => widgets'[c].offset = last.pre[c]]_vars

\* C34 witness: the character at offset 0 of a two-character buffer, as an
\* insert at 0 leaves it, was deleted again: the cursor at 1 (where the insert
\* moves a cursor from 0, i = p) is back at 0 and the cursor at 2 (where it
\* moves one from 1, i < p) is back at 1.
C34_Witness ==
  /\ last.op = "local" /\ Len(last.changes) = 1
  /\ IsDelete(last.changes[1])
  /\ last.changes[1].rangeOffset = 0
  /\ last.changes[1].rangeLength = 1
  /\ Len(text) = 1
  /\ \E c, d \in Cursors :
       /\ ~widgets[c].disposed /\ ~widgets[d].disposed
       /\ last.pre[c] = 1 /\ widgets[c].offset = 0
       /\ last.pre[d] = 2 /\ widgets[d].offset = 1


\* C35: show() / showSelection(id) and hide() / hideSelection(id) on a
\* selection that setOffsets / setPositions never positioned complete without
\* raising an error.
C35_ShowUnpositioned ==
  ( /\ last.op \in SelectionVisibilityOps
    /\ last.args[2] # Absent
    /\ selectionObjects[last.args[2]].startPosition = NoPos )
    => ~threw

=============================================================================
